---- MODULE Spec2Model ----
(***************************************************************************)
(* gprobe: a CLI client of the gRPC health-checking protocol.              *)
(*                                                                         *)
(* The repository holds three revisions of the main package:               *)
(*   "probe" : src/main.go together with src/probe/probe.go (1.0.0);       *)
(*   "ctx"   : src/unnamed/part_000 lines 312-453 (createConfig, one       *)
(*             context for dial and call);                                 *)
(*   "tls"   : src/unnamed/part_000 lines 21-290 (1.1.0: TLS flags and     *)
(*             toHumanReadable).                                           *)
(* One invocation of the binary is one behaviour: Run -> app.Action ->     *)
(* appMain (connect, check, print, deferred close) -> HandleExitCoder.     *)
(* Texts are sequences of tokens, so that "contains" is membership; the     *)
(* words the tests look for ("error", "NotFound") are tokens of their own. *)
(***************************************************************************)
EXTENDS Integers, Sequences, FiniteSets, TLC

\* ---------------------------------------------------------------- bounds
MaxArgs == 3
MaxTimeout == 2
MaxDelay == 2
MaxRuns == 2

\* ------------------------------------------------------------- constants
ExitCodeUsage == 1
ExitCodeHealthCheckNegative == 2
ExitCodeUnexpected == 127
DialTimeout == 1
NoExit == 0 - 1

Builds == {"probe", "ctx", "tls"}

ArgStrings == {"localhost:54321", "foo"}
CAValues == {"", "ca"}

RECURSIVE SeqsUpTo(_, _)
SeqsUpTo(S, n) ==
    IF n = 0 THEN {<<>>}
    ELSE LET shorter == SeqsUpTo(S, n - 1)
         IN  shorter \cup {Append(s, x) : s \in {t \in shorter : Len(t) = n - 1}, x \in S}

Range(s) == {s[i] : i \in 1..Len(s)}

\* ------------------------------------------------- errors and statuses
NoErr == [kind |-> "nil", code |-> "OK", msg |-> <<>>]
StatusErr(c, m) == [kind |-> "status", code |-> c, msg |-> m]
PlainErr(m) == [kind |-> "plain", code |-> "none", msg |-> m]

\* status errors a health endpoint (or the client transport) can answer with
RpcErrors ==
    { StatusErr("Unavailable", <<"all SubConns are in TransientFailure">>),
      StatusErr("Unimplemented", <<"unknown service grpc.health.v1.Health">>),
      StatusErr("NotFound", <<"unknown service">>),
      StatusErr("Internal", <<"boom">>) }
DeadlineErr == StatusErr("DeadlineExceeded", <<"context deadline exceeded">>)

\* hv1.HealthCheckResponse_ServingStatus values
ServingStatuses == 0..3
SERVING == 1

\* status.String()
StatusString(s) ==
    CASE s = 0 -> "UNKNOWN"
      [] s = 1 -> "SERVING"
      [] s = 2 -> "NOT_SERVING"
      [] s = 3 -> "SERVICE_UNKNOWN"

\* err.Error()
ErrorText(e) ==
    IF e.kind = "status"
    THEN <<"rpc ", "error", ": code = ", e.code, " desc = ">> \o e.msg
    ELSE e.msg

\* status.Code(err)
StatusCode(e) ==
    CASE e.kind = "nil" -> "OK"
      [] e.kind = "status" -> e.code
      [] OTHER -> "Unknown"

\* toHumanReadable without the Unimplemented case
toHumanReadableNoUnimplemented(e, service) ==
    LET code == StatusCode(e) IN
    CASE code = "OK" -> e
      [] code = "Unavailable" ->
           PlainErr(<<"connection refused: application isn't listening or TLS handshake failed">>)
      [] code = "NotFound" ->
           PlainErr(<<"rpc ", "error", ": unknown service ", service>>)
      [] OTHER ->
           IF e.kind = "status"
           THEN PlainErr(<<"rpc ", "error", ": ">> \o e.msg)
           ELSE e

\* toHumanReadable(err, service)
toHumanReadable(e, service) ==
    LET code == StatusCode(e) IN
    CASE code = "OK" -> e
      [] code = "Unavailable" ->
           PlainErr(<<"connection refused: application isn't listening or TLS handshake failed">>)
      [] code = "Unimplemented" ->
           PlainErr(<<"rpc ", "error", ": server doesn't implement gRPC health-checking protocol">>)
      [] code = "NotFound" ->
           PlainErr(<<"rpc ", "error", ": unknown service ", service>>)
      [] OTHER ->
           IF e.kind = "status"
           THEN PlainErr(<<"rpc ", "error", ": ">> \o e.msg)
           ELSE e

\* cli.NewExitError(message, exitCode)
NewExitError(m, c) == [msg |-> m, code |-> c]
NoExitError == [msg |-> <<>>, code |-> NoExit]

HelpText == <<"NAME:", "gprobe - universal gRPC health-checker", "USAGE:",
              "gprobe [options] server_address [service_name]">>

\* ------------------------------------------------------- configuration
NoCreds == [kind |-> "none", insecureSkipVerify |-> FALSE, ca |-> "none"]
TLSCreds(skip, ca) == [kind |-> "tls", insecureSkipVerify |-> skip, ca |-> ca]
NoConfig == [ok |-> FALSE, timeout |-> 0, noFail |-> FALSE, serverAddress |-> "",
             serviceName |-> "", creds |-> NoCreds]

\* countTLSFlags with --tls-capath forgotten
countTLSFlagsNoPath(f) ==
    (IF f.tls THEN 1 ELSE 0) + (IF f.tlsInsecure THEN 1 ELSE 0)
    + (IF f.tlsCAFile # "" THEN 1 ELSE 0)

\* countTLSFlags(flags)
countTLSFlags(f) ==
    (IF f.tls THEN 1 ELSE 0) + (IF f.tlsInsecure THEN 1 ELSE 0)
    + (IF f.tlsCAFile # "" THEN 1 ELSE 0) + (IF f.tlsCAPath # "" THEN 1 ELSE 0)

\* createTLSConfig with the error of rootcerts.ConfigureTLS ignored
createTLSConfigNoError(caFile, caPath, insecure, caOK) ==
    IF insecure THEN [err |-> NoErr, creds |-> TLSCreds(TRUE, "none")]
    ELSE [err |-> NoErr,
          creds |-> TLSCreds(FALSE, IF caFile # "" THEN "file"
                                    ELSE IF caPath # "" THEN "path" ELSE "system")]

\* createTLSConfig(caFile, caPath, insecure); caOK is whether rootcerts can
\* load the requested CA material
createTLSConfig(caFile, caPath, insecure, caOK) ==
    IF insecure THEN [err |-> NoErr, creds |-> TLSCreds(TRUE, "none")]
    ELSE IF (caFile # "" \/ caPath # "") /\ ~caOK
         THEN [err |-> PlainErr(<<"Error loading CA File: ">>), creds |-> NoCreds]
         ELSE [err |-> NoErr,
               creds |-> TLSCreds(FALSE, IF caFile # "" THEN "file"
                                         ELSE IF caPath # "" THEN "path" ELSE "system")]

\* parseCredentials(flags)
parseCredentials(f, caOK) ==
    CASE countTLSFlags(f) = 0 -> [err |-> NoErr, creds |-> NoCreds]
      [] countTLSFlags(f) = 1 ->
           createTLSConfig(f.tlsCAFile, f.tlsCAPath, f.tlsInsecure, caOK)
      [] OTHER ->
           [err |-> PlainErr(<<"at most one of --tls, --tls-insecure, --tls-cafile and --tls-capath is allowed">>),
            creds |-> NoCreds]

\* the argument switch with surplus arguments ignored
ArgsConfigLax(a) ==
    CASE Len(a) >= 2 -> [err |-> NoErr, serverAddress |-> a[1], serviceName |-> a[2]]
      [] Len(a) = 1 -> [err |-> NoErr, serverAddress |-> a[1], serviceName |-> ""]
      [] OTHER -> [err |-> PlainErr(<<"exactly 1 to 2 arguments are required">>),
                   serverAddress |-> "", serviceName |-> ""]

\* the switch on the number of positional arguments
ArgsConfig(a) ==
    CASE Len(a) = 2 -> [err |-> NoErr, serverAddress |-> a[1], serviceName |-> a[2]]
      [] Len(a) = 1 -> [err |-> NoErr, serverAddress |-> a[1], serviceName |-> ""]
      [] OTHER -> [err |-> PlainErr(<<"exactly 1 to 2 arguments are required">>),
                   serverAddress |-> "", serviceName |-> ""]

\* createConfig leaving noFail at its zero value
createConfigTLSWithoutNoFail(f, a, caOK) ==
    LET pos == ArgsConfig(a)
        pc0 == parseCredentials(f, caOK)
    IN  IF pos.err # NoErr THEN [err |-> pos.err, config |-> NoConfig]
        ELSE IF pc0.err # NoErr
        THEN [err |-> PlainErr(<<"can't parse TLS configuration: ">> \o ErrorText(pc0.err)),
              config |-> NoConfig]
        ELSE [err |-> NoErr,
              config |-> [ok |-> TRUE, timeout |-> f.timeout, noFail |-> FALSE,
                          serverAddress |-> pos.serverAddress,
                          serviceName |-> pos.serviceName, creds |-> pc0.creds]]

\* createConfig(flags, args) of the "tls" revision
createConfigTLS(f, a, caOK) ==
    LET pos == ArgsConfig(a)
        pc0 == parseCredentials(f, caOK)
    IN  IF pos.err # NoErr THEN [err |-> pos.err, config |-> NoConfig]
        ELSE IF pc0.err # NoErr
        THEN [err |-> PlainErr(<<"can't parse TLS configuration: ">> \o ErrorText(pc0.err)),
              config |-> NoConfig]
        ELSE [err |-> NoErr,
              config |-> [ok |-> TRUE, timeout |-> f.timeout, noFail |-> f.noFail,
                          serverAddress |-> pos.serverAddress,
                          serviceName |-> pos.serviceName, creds |-> pc0.creds]]

\* createConfig(flags, args) of the "ctx" revision
createConfigCtx(f, a) ==
    LET pos == ArgsConfig(a)
    IN  IF pos.err # NoErr THEN [err |-> pos.err, config |-> NoConfig]
        ELSE [err |-> NoErr,
              config |-> [ok |-> TRUE, timeout |-> f.timeout, noFail |-> f.noFail,
                          serverAddress |-> pos.serverAddress,
                          serviceName |-> pos.serviceName, creds |-> NoCreds]]

\* the argument switch inside app.Action of the "probe" revision
appInputProbe(f, a) == createConfigCtx(f, a)

\* ------------------------------------------------------------ environment
\* how grpc.DialContext fares: the time it takes and whether it returns an
\* error of its own (a target it cannot use)
Nets == [seen : {TRUE}, delay : 0..MaxDelay, fails : BOOLEAN]
NoNet == [seen |-> FALSE, delay |-> 0, fails |-> FALSE]

\* what is at the target address:
\*   "down"     nothing is listening (connection refused)
\*   "badtls"   the transport handshake with the listener fails
\*   "hang"     the target never answers
\*   "nohealth" a gRPC server without the health service
\*   "faulty"   a health service that fails with an error of its own
\*   "health"   a health service; answer is the status of the queried
\*              service, NotRegistered when it knows no such service
NotRegistered == 0 - 1
Endpoints ==
    [seen : {TRUE}, kind : {"down", "badtls", "hang", "nohealth", "faulty"},
     answer : {NotRegistered}, delay : 0..MaxDelay]
    \cup [seen : {TRUE}, kind : {"health"},
          answer : {NotRegistered} \cup ServingStatuses, delay : 0..MaxDelay]
NoEndpoint == [seen |-> FALSE, kind |-> "down", answer |-> NotRegistered, delay |-> 0]
NoPrev == [exitCode |-> NoExit, stdout |-> <<>>]

\* ------------------------------------------------------------------ state
VARIABLES
    build,        \* which revision of the main package runs
    args,         \* positional arguments
    flags,        \* appFlags after flag parsing
    config,       \* appConfig / appInput handed to appMain
    pc,           \* position of the invocation
    now,          \* wall clock
    startTime,    \* clock value when appMain was entered
    dialDeadline, \* deadline of the context handed to grpc.DialContext
    opDeadline,   \* deadline of the context handed to client.Check
    OpTimeout,    \* probe.OpTimeout
    connection,   \* "nil", "open" or "closed"
    dialErr,      \* error returned by grpc.DialContext
    rpcErr,       \* error returned by client.Check
    status,       \* status returned by check
    exitErr,      \* the *cli.ExitError returned to Run
    stdout,       \* lines written to stdout
    stderr,       \* lines written to stderr
    exitCode,     \* code handed to os.Exit, NoExit while running
    deferred,     \* deferred calls of appMain, last registered last
    trace,        \* network and output events in program order
    caLoadable,   \* whether rootcerts can load the CA file or directory
    net,          \* how dialing the target behaves, once observed
    endpoint,     \* what is at the target address, once observed
    run,          \* number of the current invocation
    prev          \* exit code and stdout of the previous invocation

vars == <<build, args, flags, config, pc, now, startTime, dialDeadline,
          opDeadline, OpTimeout, connection, dialErr, rpcErr, status, exitErr,
          stdout, stderr, exitCode, deferred, trace, caLoadable, net, endpoint,
          run, prev>>

env == <<caLoadable, net, endpoint, run, prev>>

FlagSets(b) ==
    [timeout : 1..MaxTimeout, noFail : BOOLEAN,
     tls : IF b = "tls" THEN BOOLEAN ELSE {FALSE},
     tlsInsecure : IF b = "tls" THEN BOOLEAN ELSE {FALSE},
     tlsCAFile : IF b = "tls" THEN CAValues ELSE {""},
     tlsCAPath : IF b = "tls" THEN CAValues ELSE {""}]

Init ==
    /\ build \in Builds
    /\ args \in SeqsUpTo(ArgStrings, MaxArgs)
    /\ flags \in FlagSets(build)
    /\ config = NoConfig
    /\ pc = "start"
    /\ now = 0
    /\ startTime = 0
    /\ dialDeadline = 0
    /\ opDeadline = 0
    /\ OpTimeout = 1
    /\ connection = "nil"
    /\ dialErr = NoErr
    /\ rpcErr = NoErr
    /\ status = 0
    /\ exitErr = NoExitError
    /\ stdout = <<>>
    /\ stderr = <<>>
    /\ exitCode = NoExit
    /\ deferred = <<>>
    /\ trace = <<>>
    /\ caLoadable \in (IF flags.tlsCAFile # "" \/ flags.tlsCAPath # "" THEN BOOLEAN ELSE {TRUE})
    /\ net = NoNet
    /\ endpoint = NoEndpoint
    /\ run = 1
    /\ prev = NoPrev

Event(op, cfg) == [op |-> op, creds |-> cfg.creds, service |-> cfg.serviceName]

\* app.Action: build the configuration, then either report a usage error
\* through app.OnUsageError or hand the configuration to mainFn
Action ==
    /\ pc = "start"
    /\   LET r == CASE build = "tls" -> createConfigTLS(flags, args, caLoadable)
                    [] build = "ctx" -> createConfigCtx(flags, args)
                    [] OTHER -> appInputProbe(flags, args)
         IN  IF r.err # NoErr
             THEN /\ stdout' = stdout \o HelpText
                  /\ exitErr' = NewExitError(ErrorText(r.err), ExitCodeUsage)
                  /\ pc' = "exit"
                  /\ config' = config
             ELSE /\ config' = r.config
                  /\ pc' = "main"
                  /\ UNCHANGED <<stdout, exitErr>>
    /\ UNCHANGED <<build, args, flags, now, startTime, dialDeadline, opDeadline,
                   OpTimeout, connection, dialErr, rpcErr, status, stderr, exitCode,
                   deferred, trace, env>>

\* the dial deadline counted from a fixed epoch instead of the time of the call
DialDeadlineAbsolute(b, t, timeout) ==
    IF b = "probe" THEN DialTimeout ELSE timeout

\* deadline of the context under which the revision dials
DialDeadlineOf(b, t, timeout) ==
    IF b = "probe" THEN t + DialTimeout ELSE t + timeout

\* message of the exit error appMain returns when connect fails
ConnectFailureText(b, e) ==
    IF b = "tls" THEN <<"can't connect to application: ">> \o ErrorText(e)
    ELSE ErrorText(e)

\* DeferredAfterConnect with the deferred close forgotten
DeferredWithoutClose(b, e) ==
    IF b = "probe" THEN <<>> ELSE <<"cancel">>

\* the deferred calls registered by the time appMain has handled the result
\* of connect: cancel() (not in the "probe" revision), then, after a
\* successful connect only, connection.Close() or probe.Disconnect()
DeferredAfterConnect(b, e) ==
    IF e # NoErr
    THEN (IF b = "probe" THEN <<>> ELSE <<"cancel">>)
    ELSE (IF b = "probe" THEN <<"Disconnect">> ELSE <<"cancel", "Close">>)

\* NextAfterConnect with the early return forgotten
NextAfterConnectNoReturn(e) == "connected"

\* where appMain continues after connect: it returns on an error
NextAfterConnect(e) == IF e # NoErr THEN "return" ELSE "connected"

Max(a, b) == IF a >= b THEN a ELSE b

\* what grpc.DialContext returns, and when, if called at time t under a
\* context whose deadline is dl
DialResult(n, t, dl) ==
    IF t + n.delay > dl
    THEN [err |-> PlainErr(<<"context deadline exceeded">>), at |-> Max(t, dl)]
    ELSE [err |-> IF n.fails THEN PlainErr(<<"grpc: dial failed">>) ELSE NoErr,
          at |-> t + n.delay]

\* connect dialing in plaintext whatever the credentials
DialOptionPlaintext(b, creds) == NoCreds

\* connect: the dial option, grpc.WithInsecure() unless credentials are given
DialOption(b, creds) ==
    IF b = "tls" /\ creds # NoCreds THEN creds ELSE NoCreds

\* appMain up to and including connect / probe.Connect
AppMainConnect ==
    /\ pc = "main"
    /\ startTime' = now
    /\ OpTimeout' = IF build = "probe" THEN config.timeout ELSE OpTimeout
    /\ dialDeadline' = DialDeadlineOf(build, now, config.timeout)
    /\ \E n \in Nets :
         /\ net.seen => n = net
         /\ net' = n
         /\ LET r == DialResult(n, now, dialDeadline')
                e == r.err
            IN  /\ now' = r.at
                /\ trace' = Append(trace, [Event("dial", config) EXCEPT
                                             !.creds = DialOption(build, config.creds)])
                /\ dialErr' = e
                /\ deferred' = DeferredAfterConnect(build, e)
                /\ pc' = NextAfterConnect(e)
                /\ IF e # NoErr
                   THEN /\ exitErr' = NewExitError(ConnectFailureText(build, e),
                                                  ExitCodeUnexpected)
                        /\ connection' = connection
                   ELSE /\ connection' = "open"
                        /\ exitErr' = exitErr
    /\ UNCHANGED <<build, args, flags, config, opDeadline, rpcErr, status, stdout,
                   stderr, exitCode, caLoadable, endpoint, run, prev>>

\* what client.Check can return: a response, or a status error and no response
Responses ==
    [err : {NoErr}, status : ServingStatuses]
    \cup [err : RpcErrors \cup {DeadlineErr}, status : {0}]

RpcError(code) == CHOOSE e \in RpcErrors : e.code = code

\* the answer of the endpoint to one Check request
Answer(ep) ==
    CASE ep.kind \in {"down", "badtls"} -> [err |-> RpcError("Unavailable"), status |-> 0]
      [] ep.kind = "nohealth" -> [err |-> RpcError("Unimplemented"), status |-> 0]
      [] ep.kind = "faulty" -> [err |-> RpcError("Internal"), status |-> 0]
      [] ep.kind = "hang" -> [err |-> DeadlineErr, status |-> 0]
      [] OTHER -> IF ep.answer = NotRegistered
                  THEN [err |-> RpcError("NotFound"), status |-> 0]
                  ELSE [err |-> NoErr, status |-> ep.answer]

\* client.Check called without regard to the deadline of its context
CheckResultNoDeadline(ep, t, dl) ==
    [r |-> Answer(ep), at |-> t + ep.delay + (IF ep.kind = "hang" THEN MaxDelay + 1 ELSE 0)]

\* what client.Check returns, and when, if called at time t under a context
\* whose deadline is dl: the answer if it arrives in time, DeadlineExceeded
\* at the deadline otherwise
CheckResult(ep, t, dl) ==
    IF t >= dl \/ ep.kind = "hang" \/ t + ep.delay > dl
    THEN [r |-> [err |-> DeadlineErr, status |-> 0], at |-> Max(t, dl)]
    ELSE [r |-> Answer(ep), at |-> t + ep.delay]

\* deadline of the context under which the revision calls client.Check
OpDeadlineOf(b, t, opTimeout, ctxDeadline) ==
    IF b = "probe" THEN t + opTimeout ELSE ctxDeadline

\* check with the error of client.Check dropped
checkDroppingError(b, e, service) == NoErr

\* check(ctx, connection, service) / probe.CheckService(serviceName)
check(b, e, service) ==
    IF b = "tls" THEN toHumanReadable(e, service) ELSE e

\* Outcome with the no-fail override forgotten
OutcomeIgnoringNoFail(noFail, st) ==
    IF st # SERVING
    THEN NewExitError(<<"health-check failed">>, ExitCodeHealthCheckNegative)
    ELSE NewExitError(<<>>, 0)

\* Outcome with the failure note left empty
OutcomeSilent(noFail, st) ==
    IF ~(noFail \/ st = SERVING)
    THEN NewExitError(<<>>, ExitCodeHealthCheckNegative)
    ELSE NewExitError(<<>>, 0)

\* the exit error appMain returns once a status was obtained
Outcome(noFail, st) ==
    IF ~(noFail \/ st = SERVING)
    THEN NewExitError(<<"health-check failed">>, ExitCodeHealthCheckNegative)
    ELSE NewExitError(<<>>, 0)

\* the status line printed before the error test
StdoutBeforeErrorTest(out, err, st) == Append(out, StatusString(st))

\* stdout once appMain has handled the result of check: the status line is
\* printed only after the error test
StdoutAfterCheck(out, err, st) ==
    IF err # NoErr THEN out ELSE Append(out, StatusString(st))

\* appMain from check to its return statement
AppMainCheck ==
    /\ pc = "connected"
    /\ opDeadline' = OpDeadlineOf(build, now, OpTimeout, dialDeadline)
    /\ \E ep \in Endpoints :
         /\ endpoint.seen => ep = endpoint
         /\ endpoint' = ep
         /\ LET res == CheckResult(ep, now, opDeadline')
                r == res.r
                err == check(build, r.err, config.serviceName)
            IN  /\ r \in Responses
                /\ now' = res.at
                /\ status' = r.status
                /\ rpcErr' = r.err
                /\ stdout' = StdoutAfterCheck(stdout, err, r.status)
                /\ trace' = trace \o <<Event("rpc", config)>>
                            \o (IF stdout' # stdout THEN <<Event("stdout", config)>>
                                ELSE <<>>)
                /\ exitErr' = IF err # NoErr
                              THEN NewExitError(ErrorText(err), ExitCodeUnexpected)
                              ELSE Outcome(config.noFail, r.status)
    /\ pc' = "return"
    /\ UNCHANGED <<build, args, flags, config, startTime, dialDeadline, OpTimeout,
                   connection, dialErr, stderr, exitCode, deferred, caLoadable, net,
                   run, prev>>

\* the deferred calls of appMain, run last registered first when it returns:
\* connection.Close() or probe.Disconnect(), then cancel()
RunDeferred(d, conn) ==
    IF \E i \in 1..Len(d) : d[i] = "Close" THEN "closed"
    ELSE IF \E i \in 1..Len(d) : d[i] = "Disconnect" THEN "nil"
    ELSE conn

CloseEvents(d, cfg) ==
    IF \E i \in 1..Len(d) : d[i] \in {"Close", "Disconnect"}
    THEN <<Event("close", cfg)>> ELSE <<>>

AppMainReturn ==
    /\ pc = "return"
    /\ connection' = RunDeferred(deferred, connection)
    /\ trace' = trace \o CloseEvents(deferred, config)
    /\ deferred' = <<>>
    /\ pc' = "exit"
    /\ UNCHANGED <<build, args, flags, config, now, startTime, dialDeadline,
                   opDeadline, OpTimeout, dialErr, rpcErr, status, exitErr, stdout,
                   stderr, exitCode, env>>

\* cli.HandleExitCoder: print the message of the exit error unless it is
\* empty, then os.Exit with its code
HandleExitCoder ==
    /\ pc = "exit"
    /\ stderr' = IF exitErr.msg # <<>> THEN Append(stderr, exitErr.msg) ELSE stderr
    /\ exitCode' = exitErr.code
    /\ trace' = Append(trace, Event("exit", config))
    /\ pc' = "done"
    /\ UNCHANGED <<build, args, flags, config, now, startTime, dialDeadline,
                   opDeadline, OpTimeout, connection, dialErr, rpcErr, status,
                   exitErr, stdout, deferred, env>>

Next ==
    \/ Action
    \/ AppMainConnect
    \/ AppMainCheck
    \/ AppMainReturn
    \/ HandleExitCoder

Spec == Init /\ [][Next]_vars

\* the process is scheduled until it exits
FairSpec == Spec /\ WF_vars(Next)

\* the same command line run again, as a new process: every variable of the
\* program starts afresh (probe.go:30-39 included), the clock and the
\* environment go on
Rerun ==
    /\ pc = "done"
    /\ run < MaxRuns
    /\ run' = run + 1
    /\ prev' = [exitCode |-> exitCode, stdout |-> stdout]
    /\ config' = NoConfig
    /\ pc' = "start"
    /\ startTime' = now
    /\ dialDeadline' = 0
    /\ opDeadline' = 0
    /\ OpTimeout' = 1
    /\ connection' = "nil"
    /\ dialErr' = NoErr
    /\ rpcErr' = NoErr
    /\ status' = 0
    /\ exitErr' = NoExitError
    /\ stdout' = <<>>
    /\ stderr' = <<>>
    /\ exitCode' = NoExit
    /\ deferred' = <<>>
    /\ trace' = <<>>
    /\ UNCHANGED <<build, args, flags, now, caLoadable, net, endpoint>>

NextRepeat ==
    \/ Next
    \/ Rerun

SpecRepeat == Init /\ [][NextRepeat]_vars

TypeOK ==
    /\ pc \in {"start", "main", "connected", "return", "exit", "done"}
    /\ connection \in {"nil", "open", "closed"}
    /\ exitCode \in {NoExit, 0, ExitCodeUsage, ExitCodeHealthCheckNegative, ExitCodeUnexpected}

\* ------------------------------------------------------------ properties
Count(op) == Cardinality({i \in 1..Len(trace) : trace[i].op = op})
Positions(op) == {i \in 1..Len(trace) : trace[i].op = op}
Dialed == Count("dial") > 0
Queried == Count("rpc") > 0
QueryOK == Queried /\ rpcErr = NoErr
ConnectFailed == Dialed /\ dialErr # NoErr
QueryFailed == Queried /\ rpcErr # NoErr
Established == Dialed /\ dialErr = NoErr
StatusNames == {StatusString(st) : st \in ServingStatuses}
TLSFlagsSet ==
    Cardinality({n \in {"tls", "tlsInsecure", "tlsCAFile", "tlsCAPath"} :
                   CASE n = "tls" -> flags.tls
                     [] n = "tlsInsecure" -> flags.tlsInsecure
                     [] n = "tlsCAFile" -> flags.tlsCAFile # ""
                     [] OTHER -> flags.tlsCAPath # ""})

C2_FailureIsFatal ==
    (pc = "done" /\ (ConnectFailed \/ QueryFailed)) => exitCode = ExitCodeUnexpected

C2_Witness ==
    /\ pc = "done" /\ QueryFailed /\ flags.noFail /\ exitCode = ExitCodeUnexpected

\* C3: stdout is exactly the one line naming the obtained status when and
\* only when the query returned a status; otherwise no status line is
\* printed, and stdout is empty when connecting or the query failed.
C3_StdoutIsStatusLine ==
    /\ QueryOK <=> (stdout = <<StatusString(status)>>)
    /\ ~QueryOK => (Range(stdout) \cap StatusNames = {})
    /\ (ConnectFailed \/ QueryFailed) => stdout = <<>>

C3_Witness ==
    /\ pc = "done" /\ QueryOK /\ stdout = <<"SERVICE_UNKNOWN">>

\* C4: at process exit stderr is non-empty exactly when the exit code is
\* not 0.
C4_StderrIffFailure ==
    (pc = "done") => ((stderr # <<>>) <=> (exitCode # 0))

C4_Witness ==
    /\ pc = "done" /\ QueryOK /\ exitCode = ExitCodeHealthCheckNegative
    /\ stderr = <<(<<"health-check failed">>)>>

\* C5: with more than one of --tls, --tls-insecure, --tls-cafile and
\* --tls-capath set, the invocation ends with exit code 1 and neither
\* connect nor check is ever called.
C5_TLSConflictIsUsageError ==
    (TLSFlagsSet > 1) =>
        /\ ~Dialed /\ ~Queried
        /\ pc \notin {"main", "connected", "return"}
        /\ (pc = "done" => exitCode = ExitCodeUsage)

C5_Witness ==
    /\ pc = "done" /\ TLSFlagsSet = 2 /\ Len(args) = 1
    /\ flags.tlsCAPath # "" /\ exitCode = ExitCodeUsage

\* C6: 1 or 2 positional arguments are accepted; with 0 or with 3 or more
\* the invocation is a usage error with exit code 1 and the main function
\* (connect, check) is never invoked.
C6_ArgumentCount ==
    /\ (Len(args) \notin {1, 2}) =>
          /\ ~Dialed /\ ~Queried
          /\ pc \notin {"main", "connected", "return"}
          /\ (pc = "done" => exitCode = ExitCodeUsage)
    /\ (Len(args) \in {1, 2} /\ TLSFlagsSet = 0 /\ pc # "start") =>
          (config.ok /\ (pc = "done" => (Dialed /\ exitCode # ExitCodeUsage)))

C6_Witness ==
    /\ pc = "done" /\ Len(args) = 3 /\ TLSFlagsSet = 0 /\ exitCode = ExitCodeUsage

\* C7: dialing and the health call are bounded by one deadline, computed
\* once when the invocation starts from the configured --timeout; the call
\* only gets what is left until that deadline.
C7_SharedDeadline ==
    /\ Dialed => dialDeadline = startTime + flags.timeout
    /\ Queried => opDeadline = startTime + flags.timeout

\* C8: on every path on which a connection was established it is closed
\* exactly once, after the query and the status output and before the
\* process exits.
C8_ClosedExactlyOnce ==
    /\ Count("close") <= 1
    /\ (pc = "done" /\ Established) =>
          /\ Count("close") = 1
          /\ connection # "open"
          /\ \A c \in Positions("close") :
                /\ \A q \in Positions("rpc") \cup Positions("stdout") : q < c
                /\ \A x \in Positions("exit") : c < x

C8_Witness ==
    /\ pc = "done" /\ Established /\ QueryFailed /\ Count("close") = 1

\* C9: an invocation dials at most once and sends at most one health-check
\* request; after a failed connect no request is sent, and a usage error
\* sends nothing.
C9_SingleShot ==
    /\ Count("dial") <= 1
    /\ Count("rpc") <= 1
    /\ ConnectFailed => ~Queried
    /\ (exitCode = ExitCodeUsage \/ exitErr.code = ExitCodeUsage) => (~Dialed /\ ~Queried)

C9_Witness ==
    /\ pc = "done" /\ ConnectFailed /\ Count("dial") = 1 /\ ~Queried

\* C10: when the query for a named service fails with NotFound, the exit
\* code is 127, stdout is empty and the message on stderr names the service.
C10_NotFoundNamesService ==
    (pc = "done" /\ QueryFailed /\ rpcErr.code = "NotFound" /\ config.serviceName # "") =>
        /\ exitCode = ExitCodeUnexpected
        /\ stdout = <<>>
        /\ \E i \in 1..Len(stderr) : config.serviceName \in Range(stderr[i])

StderrHas(token) == \E i \in 1..Len(stderr) : token \in Range(stderr[i])

\* C11: when the queried service is not registered on a running health
\* server, the exit code is 127, stdout is empty and the message on stderr
\* contains the text NotFound.
C11_NotFoundInStderr ==
    (pc = "done" /\ QueryFailed /\ endpoint.kind = "health"
       /\ endpoint.answer = NotRegistered /\ rpcErr.code = "NotFound"
       /\ config.serviceName # "") =>
        /\ exitCode = ExitCodeUnexpected
        /\ stdout = <<>>
        /\ StderrHas("NotFound")

\* C12: when nothing is listening at the target address, the exit code is
\* 127, stdout is empty and the message on stderr contains the text error.
C12_NotListeningSaysError ==
    (pc = "done" /\ Queried /\ endpoint.kind = "down") =>
        /\ exitCode = ExitCodeUnexpected
        /\ stdout = <<>>
        /\ StderrHas("error")

\* exactly one TLS mode is selected, it names a CA file or directory, and
\* that CA material cannot be loaded; the positional arguments are fine
CALoadFails ==
    /\ TLSFlagsSet = 1
    /\ flags.tlsCAFile # "" \/ flags.tlsCAPath # ""
    /\ ~caLoadable
    /\ Len(args) \in {1, 2}

HelpPrinted == \E i \in 1..Len(stdout) : stdout[i] \in Range(HelpText)

C14_Bounded ==
    /\ (pc = "done") =>
          exitCode \in {0, ExitCodeUsage, ExitCodeHealthCheckNegative, ExitCodeUnexpected}
    /\ (Dialed /\ ~Queried) => now <= dialDeadline
    /\ Queried => now <= opDeadline
    /\ (pc = "done" /\ Queried /\ endpoint.kind \in {"down", "hang"}) =>
          /\ exitCode = ExitCodeUnexpected
          /\ rpcErr.code \in {"Unavailable", "DeadlineExceeded"}

C14_Terminates == <>(pc = "done") /\ []C14_Bounded

C14_Witness ==
    /\ pc = "done" /\ Queried /\ endpoint.kind = "hang"
    /\ rpcErr = DeadlineErr /\ now = opDeadline /\ exitCode = ExitCodeUnexpected

\* C15: --no-fail has no effect on a server check: without a service name
\* the exit code after a successful query depends on the status alone, 0
\* for SERVING and 2 otherwise, with and without --no-fail.
C15_NoFailIgnoredForServerCheck ==
    (pc = "done" /\ QueryOK /\ config.serviceName = "") =>
        exitCode = (IF status = SERVING THEN 0 ELSE ExitCodeHealthCheckNegative)

ConnectionRefusedText ==
    <<"connection refused: application isn't listening or TLS handshake failed">>
UnimplementedText ==
    <<"rpc ", "error", ": server doesn't implement gRPC health-checking protocol">>
UnknownServiceText(service) == <<"rpc ", "error", ": unknown service ", service>>
FallbackText(e) == <<"rpc ", "error", ": ">> \o e.msg

\* C16: the error returned by connecting or by the health query is never
\* shown as it is: the message on stderr is one of the fixed classified
\* messages or "rpc error: <message>" without the status code.
C16_NoRawError ==
    (pc = "done" /\ (ConnectFailed \/ QueryFailed)) =>
        LET raw == IF ConnectFailed THEN dialErr ELSE rpcErr
            m == stderr[Len(stderr)]
        IN  /\ m \in {ConnectionRefusedText, UnimplementedText,
                      UnknownServiceText(config.serviceName), FallbackText(raw)}
            /\ m # ErrorText(raw)

\* C17: every failure to establish a session (connection refused, TLS
\* handshake failure, deadline expiry while connecting, an error of the
\* dial itself) is reported with the one fixed connection-error message,
\* which is no "rpc error" message.
C17_OneConnectionError ==
    (pc = "done" /\ (ConnectFailed \/ (Queried /\ endpoint.kind \in {"down", "badtls"}))) =>
        /\ stderr = <<ConnectionRefusedText>>
        /\ "rpc " \notin Range(ConnectionRefusedText)

C20_OneSecurityMode ==
    Dialed =>
        \A i \in Positions("dial") :
            LET c == trace[i].creds IN
            /\ TLSFlagsSet <= 1
            /\ (TLSFlagsSet = 0) => (config.creds = NoCreds /\ c = NoCreds)
            /\ (TLSFlagsSet = 1) =>
                  /\ config.creds.kind = "tls"
                  /\ c = config.creds
                  /\ c.insecureSkipVerify <=> flags.tlsInsecure
                  /\ flags.tlsInsecure => c.ca = "none"
                  /\ flags.tls => c.ca = "system"
                  /\ (flags.tlsCAFile # "") => c.ca = "file"
                  /\ (flags.tlsCAPath # "") => c.ca = "path"

C20_Witness ==
    /\ pc = "done" /\ Dialed /\ flags.tlsInsecure
    /\ \E i \in Positions("dial") : trace[i].creds = TLSCreds(TRUE, "none")

\* the configuration has the fields the arguments and flags ask for
ConfigMatchesInput ==
    /\ config.ok
    /\ config.serverAddress = args[1]
    /\ config.serviceName = (IF Len(args) = 2 THEN args[2] ELSE "")
    /\ config.timeout = flags.timeout
    /\ config.noFail = flags.noFail

\* C21 as stated: with 1 or 2 positional arguments createConfig returns no
\* error and a configuration whose serverAddress is the first argument,
\* whose serviceName is the second argument or empty, and whose timeout and
\* noFail are the values of the flags.
C21_CreateConfigAlwaysSucceeds ==
    (pc # "start" /\ Len(args) \in {1, 2}) =>
        (ConfigMatchesInput /\ ~HelpPrinted)

\* C21 amended: with 1 or 2 positional arguments, at most one TLS flag and
\* CA material that can be loaded, createConfig returns no error and a
\* configuration whose serverAddress is the first argument, whose
\* serviceName is the second argument or empty, and whose timeout and
\* noFail are the values of the flags; with 1 or 2 arguments and more than
\* one TLS flag or unloadable CA material it returns an error.
C21_CreateConfigFields ==
    (pc # "start" /\ Len(args) \in {1, 2}) =>
        IF TLSFlagsSet <= 1 /\ ~CALoadFails
        THEN ConfigMatchesInput /\ ~HelpPrinted
        ELSE config = NoConfig /\ HelpPrinted /\ ~Dialed

C21_Witness ==
    /\ build = "tls" /\ pc = "main" /\ Len(args) = 2
    /\ flags.noFail /\ flags.timeout = MaxTimeout /\ flags.tlsCAFile # ""
    /\ config.noFail /\ config.timeout = MaxTimeout
    /\ config.serverAddress = args[1] /\ config.serviceName = args[2]

====
